---- MODULE Spec2Model ----
(***************************************************************************)
(* The steering-command state machine of ApplicationCompanion              *)
(* (src/Application_Companion/application_companion.py).                   *)
(*                                                                         *)
(* One Companion process: run() performs the runtime set-up and then the   *)
(* loop that fetches a value from the Orchestrator's inbound queue and     *)
(* executes it.  The Orchestrator and the Application Manager are the      *)
(* environment: the former puts values on the inbound queue, the latter    *)
(* answers the commands put on its inbound queue.                          *)
(*                                                                         *)
(* `log' is the history of the calls the Companion makes, in program       *)
(* order; a handler that runs without blocking is one step and appends     *)
(* its calls in the order the code makes them.                             *)
(***************************************************************************)
EXTENDS Integers, Sequences, FiniteSets, TLC

\* number of values the Orchestrator puts on the inbound queue
MaxCommands == 3

\* ---------------------------------------------------------------- enums
OK == "OK"

ERROR == "ERROR"

INIT == "INIT"

START == "START"

END == "END"

FATAL == "FATAL"

STATE_UPDATE_FATAL == "STATE_UPDATE_FATAL"

\* a value of the inbound queue that is not a key of the dispatch table
UNKNOWN == "PAUSE"

READY == "READY"

SYNCHRONIZING == "SYNCHRONIZING"

RUNNING == "RUNNING"

TERMINATED == "TERMINATED"

\* response of the Application Manager to a successful INIT:
\* the PID and the local minimum step size
PID_AND_STEP == "pid=123,step=0.1"

NONE == "NONE"

SteeringCommands == {INIT, START, END}

InboundValues == SteeringCommands \cup {FATAL, UNKNOWN}

VARIABLES
    pc,                                 \* position of the Companion process
    log,                                \* calls made so far, in order
    application_companion_in_queue,
    application_companion_out_queue,
    application_manager_in_queue,
    application_manager_out_queue,
    is_registered,                      \* the multiprocessing.Event
    ac_registered_component_service,    \* the registry proxy (handle)
    current_state,                      \* state recorded in the registry
    application_manager,                \* Manager processes started
    current_steering_command,
    signal_raised,                      \* SIGTERM raised on itself
    run_result,                         \* what run() returned
    exception,                          \* exception that left run()
    orchestrator_sent                   \* values put by the Orchestrator

vars == <<pc, log, application_companion_in_queue,
          application_companion_out_queue, application_manager_in_queue,
          application_manager_out_queue, is_registered,
          ac_registered_component_service, current_state,
          application_manager, current_steering_command, signal_raised,
          run_result, exception, orchestrator_sent>>

Ev(op, arg, rc) == [op |-> op, arg |-> arg, rc |-> rc]

\* ------------------------------------------------------- pure functions

\* the state each handler writes to the registry
new_state_mutated(command) ==
    CASE command = INIT -> SYNCHRONIZING
      [] command = START -> SYNCHRONIZING
      [] command = END -> TERMINATED

new_state(command) ==
    CASE command = INIT -> SYNCHRONIZING
      [] command = START -> RUNNING
      [] command = END -> TERMINATED

\* registry: update_state(handle, state) records the state unless it fails
update_state(recorded, state, rc) ==
    IF rc = ERROR THEN recorded ELSE state

\* `if self.__update_local_state(...) == Response.ERROR'
state_update_failed_mutated(rc) == FALSE

state_update_failed(rc) == rc = ERROR

\* __command_execution_response
command_execution_response_mutated(response) == OK

command_execution_response(response) ==
    IF response = ERROR THEN ERROR ELSE OK

\* the value a handler passes to __send_response_to_orchestrator
response_to_orchestrator_mutated(response) ==
    command_execution_response(response)

response_to_orchestrator(response) == response

\* __handle_fatal_event
handle_fatal_event_mutated == OK

handle_fatal_event == ERROR

\* parameters of __send_response_to_orchestrator besides self
send_response_to_orchestrator_parameters == 1

\* arguments __respond_with_state_update_error passes to it
state_update_error_arguments == 2

\* __respond_with_state_update_error: the calls it makes and how it ends.
\* A call with the wrong number of arguments raises TypeError before the
\* callee's body runs.
respond_with_state_update_error ==
    IF state_update_error_arguments = send_response_to_orchestrator_parameters
    THEN [raised |-> FALSE,
          sent |-> <<STATE_UPDATE_FATAL>>,
          events |-> <<Ev("send_orchestrator", STATE_UPDATE_FATAL, OK)>>,
          rc |-> ERROR]
    ELSE [raised |-> TRUE,
          sent |-> <<>>,
          events |-> <<Ev("exception", "TypeError", NONE)>>,
          rc |-> NONE]

\* __terminate_with_error: raises SIGTERM on the process itself, then
\* returns ERROR (the return is what the loop reports as Terminated(ERROR);
\* signal_raised records that the signal was raised)
terminate_with_error ==
    <<Ev("raise_signal", "SIGTERM", NONE), Ev("return", "loop", ERROR)>>

\* `if self.__set_up_runtime() is Response.ERROR' in run()
setup_failed_mutated(rc) == FALSE

setup_failed(rc) == rc = ERROR

\* __set_up_runtime: the calls it makes, what it leaves in the instance
\* and what it returns, given the results of set_affinity and register
set_up_runtime_mutated(affinity_rc, register_rc) ==
    LET calls == <<Ev("set_affinity", NONE, affinity_rc),
                   Ev("is_registered.set", NONE, NONE),
                   Ev("register", READY, register_rc)>>
    IN  IF register_rc = ERROR
        THEN [rc |-> ERROR, is_registered |-> TRUE, handle |-> NONE,
              recorded |-> NONE, events |-> calls]
        ELSE [rc |-> OK, is_registered |-> TRUE, handle |-> "proxy",
              recorded |-> READY,
              events |-> calls \o <<Ev("find_by_id", NONE, "proxy")>>]

set_up_runtime_affinity_fatal(affinity_rc, register_rc) ==
    LET calls == <<Ev("set_affinity", NONE, affinity_rc),
                   Ev("register", READY, register_rc)>>
    IN  IF affinity_rc = ERROR
        THEN [rc |-> ERROR, is_registered |-> FALSE, handle |-> NONE,
              recorded |-> NONE,
              events |-> <<Ev("set_affinity", NONE, affinity_rc)>>]
        ELSE IF register_rc = ERROR
        THEN [rc |-> ERROR, is_registered |-> FALSE, handle |-> NONE,
              recorded |-> NONE, events |-> calls]
        ELSE [rc |-> OK, is_registered |-> TRUE, handle |-> "proxy",
              recorded |-> READY,
              events |-> calls \o <<Ev("is_registered.set", NONE, NONE),
                                    Ev("find_by_id", NONE, "proxy")>>]

set_up_runtime(affinity_rc, register_rc) ==
    LET calls == <<Ev("set_affinity", NONE, affinity_rc),
                   Ev("register", READY, register_rc)>>
    IN  IF register_rc = ERROR
        THEN [rc |-> ERROR, is_registered |-> FALSE, handle |-> NONE,
              recorded |-> NONE, events |-> calls]
        ELSE [rc |-> OK, is_registered |-> TRUE, handle |-> "proxy",
              recorded |-> READY,
              events |-> calls \o <<Ev("is_registered.set", NONE, NONE),
                                    Ev("find_by_id", NONE, "proxy")>>]

\* the loop of __fetch_and_execute_steering_commands after the handler of
\* `command' has returned rc
loop_after_handler_mutated(command, rc) ==
    IF command = END
    THEN [pc |-> "Terminated", signal |-> FALSE, result |-> OK,
          events |-> <<Ev("return", "loop", OK)>>]
    ELSE [pc |-> "AwaitingCommand", signal |-> FALSE, result |-> NONE,
          events |-> <<>>]

loop_after_handler_end_on_start(command, rc) ==
    IF rc = ERROR
    THEN [pc |-> "Terminated", signal |-> TRUE, result |-> ERROR,
          events |-> terminate_with_error]
    ELSE IF command \in {START, END}
         THEN [pc |-> "Terminated", signal |-> FALSE, result |-> OK,
               events |-> <<Ev("return", "loop", OK)>>]
         ELSE [pc |-> "AwaitingCommand", signal |-> FALSE, result |-> NONE,
               events |-> <<>>]

loop_after_handler_no_signal(command, rc) ==
    IF rc = ERROR
    THEN [pc |-> "Terminated", signal |-> FALSE, result |-> ERROR,
          events |-> <<Ev("return", "loop", ERROR)>>]
    ELSE IF command = END
         THEN [pc |-> "Terminated", signal |-> FALSE, result |-> OK,
               events |-> <<Ev("return", "loop", OK)>>]
         ELSE [pc |-> "AwaitingCommand", signal |-> FALSE, result |-> NONE,
               events |-> <<>>]

loop_after_handler(command, rc) ==
    IF rc = ERROR
    THEN [pc |-> "Terminated", signal |-> TRUE, result |-> ERROR,
          events |-> terminate_with_error]
    ELSE IF command = END
         THEN [pc |-> "Terminated", signal |-> FALSE, result |-> OK,
               events |-> <<Ev("return", "loop", OK)>>]
         ELSE [pc |-> "AwaitingCommand", signal |-> FALSE, result |-> NONE,
               events |-> <<>>]

\* whether the handler of `command' constructs and starts a Manager:
\* only __execute_init_command does
starts_manager_mutated(command) == command \in {INIT, START}

starts_manager(command) == command = INIT

\* where a handler is after __send_command_to_application_manager: in the
\* blocking receive on the Manager's out queue
position_after_send_mutated == "AwaitingCommand"

position_after_send == "AwaitingManager"

\* responses the Manager gives to a command
ManagerResponses(command) ==
    IF command = INIT THEN {PID_AND_STEP, ERROR} ELSE {OK, ERROR}

\* ----------------------------------------------------------------- Init
Init ==
    /\ pc = "start"
    /\ log = <<>>
    /\ application_companion_in_queue = <<>>
    /\ application_companion_out_queue = <<>>
    /\ application_manager_in_queue = <<>>
    /\ application_manager_out_queue = <<>>
    /\ is_registered = FALSE
    /\ ac_registered_component_service = NONE
    /\ current_state = NONE
    /\ application_manager = 0
    /\ current_steering_command = NONE
    /\ signal_raised = FALSE
    /\ run_result = NONE
    /\ exception = NONE
    /\ orchestrator_sent = 0

\* -------------------------------------------------------------- actions

\* run(): the runtime set-up, then either return ERROR or enter the loop
Run(affinity_rc, register_rc) ==
    /\ pc = "start"
    /\ LET s == set_up_runtime(affinity_rc, register_rc)
       IN  /\ is_registered' = s.is_registered
           /\ ac_registered_component_service' = s.handle
           /\ current_state' = s.recorded
           /\ IF setup_failed(s.rc)
              THEN /\ log' = log \o s.events \o <<Ev("return", "run", ERROR)>>
                   /\ pc' = "SetupFailed"
                   /\ run_result' = ERROR
              ELSE /\ log' = log \o s.events
                   /\ pc' = "AwaitingCommand"
                   /\ run_result' = run_result
    /\ UNCHANGED <<application_companion_in_queue,
                   application_companion_out_queue,
                   application_manager_in_queue,
                   application_manager_out_queue, application_manager,
                   current_steering_command, signal_raised, exception,
                   orchestrator_sent>>

\* the loop fetches `command' and runs its handler up to the blocking
\* receive on the Manager's out queue; rc is what update_state returns
execute_command(command, rc) ==
    /\ pc = "AwaitingCommand"
    /\ application_companion_in_queue # <<>>
    /\ Head(application_companion_in_queue) = command
    /\ application_companion_in_queue' = Tail(application_companion_in_queue)
    /\ current_steering_command' = command
    /\ current_state' = update_state(current_state, new_state(command), rc)
    /\ LET fetched == log \o <<Ev("receive_orchestrator", command, NONE),
                               Ev("update_state", new_state(command), rc)>>
       IN  IF state_update_failed(rc)
           THEN LET r == respond_with_state_update_error
                    t == loop_after_handler(command, r.rc)
                IN  /\ application_companion_out_queue' =
                           application_companion_out_queue \o r.sent
                    /\ IF r.raised
                       THEN /\ log' = fetched \o r.events
                            /\ pc' = "Raised"
                            /\ exception' = "TypeError"
                            /\ UNCHANGED <<signal_raised, run_result>>
                       ELSE /\ log' = fetched \o r.events \o t.events
                            /\ pc' = t.pc
                            /\ signal_raised' = (signal_raised \/ t.signal)
                            /\ run_result' = t.result
                            /\ UNCHANGED exception
                    /\ UNCHANGED <<application_manager,
                                   application_manager_in_queue>>
           ELSE /\ application_manager' =
                       IF starts_manager(command)
                       THEN application_manager + 1
                       ELSE application_manager
                /\ application_manager_in_queue' =
                       Append(application_manager_in_queue, command)
                /\ log' = fetched
                       \o (IF starts_manager(command)
                           THEN <<Ev("manager_start", NONE, NONE)>>
                           ELSE <<>>)
                       \o <<Ev("send_manager", command, NONE)>>
                /\ pc' = position_after_send
                /\ UNCHANGED <<application_companion_out_queue,
                               signal_raised, run_result, exception>>
    /\ UNCHANGED <<application_manager_out_queue, is_registered,
                   ac_registered_component_service, orchestrator_sent>>

execute_init_command(rc) == execute_command(INIT, rc)

execute_start_command(rc) == execute_command(START, rc)

execute_end_command(rc) == execute_command(END, rc)

\* the loop fetches the FATAL event
fetch_fatal_event ==
    /\ pc = "AwaitingCommand"
    /\ application_companion_in_queue # <<>>
    /\ Head(application_companion_in_queue) = FATAL
    /\ application_companion_in_queue' = Tail(application_companion_in_queue)
    /\ current_steering_command' = FATAL
    /\ LET t == loop_after_handler(FATAL, handle_fatal_event)
       IN  /\ log' = log \o <<Ev("receive_orchestrator", FATAL, NONE)>>
                         \o t.events
           /\ pc' = t.pc
           /\ signal_raised' = (signal_raised \/ t.signal)
           /\ run_result' = t.result
    /\ UNCHANGED <<application_companion_out_queue,
                   application_manager_in_queue,
                   application_manager_out_queue, is_registered,
                   ac_registered_component_service, current_state,
                   application_manager, exception, orchestrator_sent>>

\* the loop fetches a value that is not a key of command_execution_choices
fetch_unknown_value_mutated ==
    /\ pc = "AwaitingCommand"
    /\ application_companion_in_queue # <<>>
    /\ Head(application_companion_in_queue)
           \notin SteeringCommands \cup {FATAL}
    /\ application_companion_in_queue' = Tail(application_companion_in_queue)
    /\ current_steering_command' = Head(application_companion_in_queue)
    /\ LET t == loop_after_handler(Head(application_companion_in_queue),
                                   handle_fatal_event)
       IN  /\ log' = log \o <<Ev("receive_orchestrator",
                                 Head(application_companion_in_queue), NONE)>>
                         \o t.events
           /\ pc' = t.pc
           /\ signal_raised' = (signal_raised \/ t.signal)
           /\ run_result' = t.result
    /\ UNCHANGED <<application_companion_out_queue,
                   application_manager_in_queue,
                   application_manager_out_queue, is_registered,
                   ac_registered_component_service, current_state,
                   application_manager, exception, orchestrator_sent>>

fetch_unknown_value ==
    /\ pc = "AwaitingCommand"
    /\ application_companion_in_queue # <<>>
    /\ Head(application_companion_in_queue)
           \notin SteeringCommands \cup {FATAL}
    /\ application_companion_in_queue' = Tail(application_companion_in_queue)
    /\ current_steering_command' = Head(application_companion_in_queue)
    /\ log' = log \o <<Ev("receive_orchestrator",
                          Head(application_companion_in_queue), NONE),
                       Ev("exception", "KeyError", NONE)>>
    /\ pc' = "Raised"
    /\ exception' = "KeyError"
    /\ UNCHANGED <<application_companion_out_queue,
                   application_manager_in_queue,
                   application_manager_out_queue, is_registered,
                   ac_registered_component_service, current_state,
                   application_manager, signal_raised, run_result,
                   orchestrator_sent>>

\* the handler resumes with the Manager's response: forwards it,
\* classifies it, and the loop acts on the classification
receive_response_from_application_manager ==
    /\ pc = "AwaitingManager"
    /\ application_manager_out_queue # <<>>
    /\ LET response == Head(application_manager_out_queue)
           forwarded == response_to_orchestrator(response)
           t == loop_after_handler(current_steering_command,
                                   command_execution_response(response))
       IN  /\ application_manager_out_queue' =
                  Tail(application_manager_out_queue)
           /\ application_companion_out_queue' =
                  Append(application_companion_out_queue, forwarded)
           /\ log' = log \o <<Ev("receive_manager", response, NONE),
                              Ev("send_orchestrator", forwarded, OK)>>
                         \o t.events
           /\ pc' = t.pc
           /\ signal_raised' = (signal_raised \/ t.signal)
           /\ run_result' = t.result
    /\ UNCHANGED <<application_companion_in_queue,
                   application_manager_in_queue, is_registered,
                   ac_registered_component_service, current_state,
                   application_manager, current_steering_command,
                   exception, orchestrator_sent>>

\* ---------------------------------------------------------- environment

\* the Orchestrator puts a value on the Companion's inbound queue
OrchestratorPut(value) ==
    /\ orchestrator_sent < MaxCommands
    /\ orchestrator_sent' = orchestrator_sent + 1
    /\ application_companion_in_queue' =
           Append(application_companion_in_queue, value)
    /\ UNCHANGED <<pc, log, application_companion_out_queue,
                   application_manager_in_queue,
                   application_manager_out_queue, is_registered,
                   ac_registered_component_service, current_state,
                   application_manager, current_steering_command,
                   signal_raised, run_result, exception>>

\* a started Manager takes a command and emits one response to it
ManagerAnswer(response) ==
    /\ application_manager > 0
    /\ application_manager_in_queue # <<>>
    /\ response \in ManagerResponses(Head(application_manager_in_queue))
    /\ application_manager_in_queue' = Tail(application_manager_in_queue)
    /\ application_manager_out_queue' =
           Append(application_manager_out_queue, response)
    /\ UNCHANGED <<pc, log, application_companion_in_queue,
                   application_companion_out_queue, is_registered,
                   ac_registered_component_service, current_state,
                   application_manager, current_steering_command,
                   signal_raised, run_result, exception, orchestrator_sent>>

Next ==
    \/ \E affinity_rc \in {OK, ERROR}, register_rc \in {OK, ERROR} :
           Run(affinity_rc, register_rc)
    \/ \E rc \in {OK, ERROR} : execute_init_command(rc)
    \/ \E rc \in {OK, ERROR} : execute_start_command(rc)
    \/ \E rc \in {OK, ERROR} : execute_end_command(rc)
    \/ fetch_fatal_event
    \/ fetch_unknown_value
    \/ receive_response_from_application_manager
    \/ \E value \in InboundValues : OrchestratorPut(value)
    \/ \E response \in {OK, ERROR, PID_AND_STEP} : ManagerAnswer(response)

Spec == Init /\ [][Next]_vars

\* the steps of the Companion process
CompanionNext ==
    \/ \E affinity_rc \in {OK, ERROR}, register_rc \in {OK, ERROR} :
           Run(affinity_rc, register_rc)
    \/ \E rc \in {OK, ERROR} : execute_init_command(rc)
    \/ \E rc \in {OK, ERROR} : execute_start_command(rc)
    \/ \E rc \in {OK, ERROR} : execute_end_command(rc)
    \/ fetch_fatal_event
    \/ fetch_unknown_value
    \/ receive_response_from_application_manager

\* The Companion is a running process: a step it can take, it takes.  A
\* started Manager answers the command at the head of its in queue.  The
\* Orchestrator is under no obligation.
FairSpec ==
    /\ Spec
    /\ WF_vars(CompanionNext)
    /\ WF_vars(\E response \in {OK, ERROR, PID_AND_STEP} :
                   ManagerAnswer(response))

\* --------------------------------------------------------------- typing
TypeOK ==
    /\ pc \in {"start", "SetupFailed", "AwaitingCommand", "AwaitingManager",
               "Terminated", "Raised"}
    /\ is_registered \in BOOLEAN
    /\ signal_raised \in BOOLEAN
    /\ run_result \in {NONE, OK, ERROR}
    /\ exception \in {NONE, "TypeError", "KeyError"}
    /\ current_state \in {NONE, READY, SYNCHRONIZING, RUNNING, TERMINATED}
    /\ application_manager \in 0..orchestrator_sent
    /\ orchestrator_sent \in 0..MaxCommands

\* ------------------------------------------------- reading the history

\* positions of the log where `op' was called
Calls(op) == {i \in 1..Len(log) : log[i].op = op}

ArgsOf(events) == [i \in 1..Len(events) |-> events[i].arg]

\* values the loop has taken from the Orchestrator's inbound queue
Fetched == ArgsOf(SelectSeq(log, LAMBDA e : e.op = "receive_orchestrator"))

\* states recorded in the registry for this Companion, oldest first
RecordedStates ==
    ArgsOf(SelectSeq(log, LAMBDA e :
        /\ e.op \in {"register", "update_state"}
        /\ e.rc # ERROR))

\* responses taken from the Manager's out queue
ReceivedFromManager ==
    ArgsOf(SelectSeq(log, LAMBDA e : e.op = "receive_manager"))

\* positions of the state updates that failed
FailedUpdates == {i \in Calls("update_state") : log[i].rc = ERROR}

\* positions where the Manager's answer was the ERROR sentinel
ErrorAnswers == {i \in Calls("receive_manager") : log[i].arg = ERROR}

RegistrationFailed == \E i \in Calls("register") : log[i].rc = ERROR

RegistrationSucceeded == \E i \in Calls("register") : log[i].rc # ERROR

\* the lifecycle state the specification attaches to each command
ExpectedState(command) ==
    CASE command = INIT -> "SYNCHRONIZING"
      [] command = START -> "RUNNING"
      [] command = END -> "TERMINATED"
      [] OTHER -> "NONE"

\* the calls log2 has that log1, a prefix of it, has not
NewCalls(log1, log2) == SubSeq(log2, Len(log1) + 1, Len(log2))

\* the Companion fails a state update in this step
FailedUpdateStep ==
    \E i \in (Len(log) + 1)..Len(log') :
        log'[i].op = "update_state" /\ log'[i].rc = ERROR

\* the loop takes the FATAL event in this step
FatalStep ==
    /\ pc = "AwaitingCommand"
    /\ application_companion_in_queue # <<>>
    /\ Head(application_companion_in_queue) = FATAL
    /\ log' # log

LoopReturnedOK == pc = "Terminated" /\ run_result = OK

\* --------------------------------------------------------------- claims

\* C1 (as stated): whenever the loop has returned OK after a successful
\* END, the states recorded in the registry are exactly READY,
\* SYNCHRONIZING, RUNNING, TERMINATED.
C1_ExactLifecycleForAnySequence ==
    LoopReturnedOK =>
        RecordedStates = <<READY, SYNCHRONIZING, RUNNING, TERMINATED>>

\* C1 (amended): whenever the loop has returned OK, the last command
\* executed is END, the recorded states are READY followed by the state of
\* each executed command in order, the last call of the loop is its return
\* of OK without a signal, and for the commands INIT, START, END the
\* recorded states are exactly READY, SYNCHRONIZING, RUNNING, TERMINATED.
C1_RecordedStatesFollowCommands ==
    LoopReturnedOK =>
        /\ Fetched # <<>>
        /\ Fetched[Len(Fetched)] = END
        /\ RecordedStates =
               <<"READY">> \o [i \in 1..Len(Fetched) |->
                                   ExpectedState(Fetched[i])]
        /\ current_state = "TERMINATED"
        /\ log[Len(log)] = Ev("return", "loop", OK)
        /\ ~signal_raised
        /\ (Fetched = <<INIT, START, END>> =>
               RecordedStates = <<"READY", "SYNCHRONIZING", "RUNNING",
                                  "TERMINATED">>)

C1_Witness ==
    /\ LoopReturnedOK
    /\ Fetched = <<INIT, START, END>>

\* C2 (as stated): after a state update has failed, exactly one
\* STATE_UPDATE_FATAL event has been put on the Orchestrator's outbound
\* queue for that command.
C2_OneStateUpdateFatalSent ==
    \A i \in FailedUpdates :
        /\ Cardinality({j \in Calls("send_orchestrator") :
               j > i /\ log[j].arg = STATE_UPDATE_FATAL}) = 1
        /\ application_companion_out_queue # <<>>
        /\ application_companion_out_queue[
               Len(application_companion_out_queue)] = STATE_UPDATE_FATAL

\* C3: a step in which a state update fails puts nothing on the Manager's
\* in queue, takes nothing from the Manager's out queue, starts no Manager,
\* and does not leave the Companion waiting for the Manager.
C3_ManagerNotContactedOnFailedUpdate ==
    [][FailedUpdateStep =>
          /\ application_manager_in_queue' = application_manager_in_queue
          /\ application_manager_out_queue' = application_manager_out_queue
          /\ application_manager' = application_manager
          /\ pc' \in {"Raised", "Terminated"}
          /\ \A i \in (Len(log) + 1)..Len(log') :
                 log'[i].op \notin {"manager_start", "send_manager",
                                    "receive_manager"}]_vars

C3_Witness ==
    /\ FailedUpdates # {}
    /\ current_steering_command = START
    /\ application_manager = 1
    /\ application_manager_in_queue = <<>>

\* C4 (as stated): after a failed state update the Companion has sent
\* STATE_UPDATE_FATAL upstream, then raised the termination signal, and the
\* loop has ended in Terminated(ERROR).
C4_FailedUpdateTerminatesLoop ==
    \A i \in FailedUpdates :
        /\ NewCalls(SubSeq(log, 1, i), log) =
               <<Ev("send_orchestrator", STATE_UPDATE_FATAL, OK)>>
               \o terminate_with_error
        /\ pc = "Terminated"
        /\ run_result = ERROR
        /\ signal_raised

\* C5: the step in which the loop takes FATAL ends the loop in
\* Terminated(ERROR), updates no registry state, puts or takes nothing on
\* either Manager queue and sends nothing to the Orchestrator; when FATAL
\* is the first value taken the registry state is still READY.
C5_FatalIsImmediateFailure ==
    [][FatalStep =>
          /\ pc' = "Terminated"
          /\ run_result' = ERROR
          /\ current_state' = current_state
          /\ application_manager_in_queue' = application_manager_in_queue
          /\ application_manager_out_queue' = application_manager_out_queue
          /\ application_manager' = application_manager
          /\ application_companion_out_queue' =
                 application_companion_out_queue
          /\ \A i \in (Len(log) + 1)..Len(log') :
                 log'[i].op \in {"receive_orchestrator", "raise_signal",
                                 "return"}
          /\ (Fetched = <<>> => current_state' = "READY")]_vars

C5_Witness ==
    /\ pc = "Terminated"
    /\ current_steering_command = FATAL
    /\ Fetched = <<INIT, FATAL>>
    /\ current_state = "SYNCHRONIZING"

\* C6: when the Manager has answered with ERROR, the next calls of the
\* Companion are: put that ERROR on the Orchestrator's outbound queue,
\* raise the termination signal, return ERROR from the loop; and the loop
\* is in Terminated(ERROR).
C6_ManagerErrorForwardedBeforeTermination ==
    \A i \in ErrorAnswers :
        /\ NewCalls(SubSeq(log, 1, i), log) =
               <<Ev("send_orchestrator", "ERROR", OK),
                 Ev("raise_signal", "SIGTERM", NONE),
                 Ev("return", "loop", "ERROR")>>
        /\ application_companion_out_queue[
               Len(application_companion_out_queue)] = "ERROR"
        /\ pc = "Terminated"
        /\ run_result = "ERROR"
        /\ signal_raised

C6_Witness ==
    /\ ErrorAnswers # {}
    /\ current_steering_command = INIT

\* C7: the Registration-Complete flag is set exactly when the registration
\* call has returned success, and it has been set at most once.
C7_FlagIffRegistered ==
    /\ is_registered <=> RegistrationSucceeded
    /\ Cardinality(Calls("is_registered.set")) <= 1
    /\ \A i \in Calls("is_registered.set") :
           \E j \in Calls("register") : j < i /\ log[j].rc # ERROR

C7_Witness ==
    /\ is_registered
    /\ \E i \in Calls("set_affinity") : log[i].rc = ERROR

\* C8: once the registration call has failed, run has returned ERROR, the
\* loop is never entered: nothing is taken from the inbound queue, no state
\* update is attempted and no Manager is started.
C8_NoLoopAfterFailedRegistration ==
    RegistrationFailed =>
        /\ pc = "SetupFailed"
        /\ run_result = ERROR
        /\ ~is_registered
        /\ Len(application_companion_in_queue) = orchestrator_sent
        /\ Calls("receive_orchestrator") = {}
        /\ Calls("update_state") = {}
        /\ Calls("manager_start") = {}
        /\ application_manager = 0
        /\ current_state = NONE

C8_Witness ==
    /\ RegistrationFailed
    /\ Len(application_companion_in_queue) = 2

\* C9: while no state update has failed, the values put on the
\* Orchestrator's outbound queue are exactly the responses received from
\* the Manager, in order; there is one per command whose handler has
\* finished; and a response other than ERROR does not end the loop with an
\* error.
C9_ResponsesForwardedVerbatim ==
    FailedUpdates = {} =>
        /\ application_companion_out_queue = ReceivedFromManager
        /\ Len(application_companion_out_queue) =
               Cardinality({i \in 1..Len(Fetched) :
                               Fetched[i] \in SteeringCommands})
               - (IF pc = "AwaitingManager" THEN 1 ELSE 0)
        /\ \A i \in Calls("receive_manager") :
               /\ log[i + 1] = Ev("send_orchestrator", log[i].arg, OK)
               /\ (log[i].arg # "ERROR" =>
                      \A j \in Calls("raise_signal") : j # i + 2)

C9_Witness ==
    /\ FailedUpdates = {}
    /\ application_companion_out_queue = <<PID_AND_STEP, OK, OK>>

C10_Frozen ==
    \A i \in ErrorAnswers :
        /\ pc = "Terminated"
        /\ run_result = "ERROR"
        /\ current_state = ExpectedState(current_steering_command)
        /\ \E j \in Calls("update_state") :
               /\ j < i
               /\ log[j] = Ev("update_state",
                              ExpectedState(current_steering_command), OK)
               /\ \A k \in Calls("update_state") : k <= j

\* C10: when the Manager has answered a command with ERROR, the loop has
\* failed, the registry holds the state of that command, whose update came
\* before the answer, and from then on the registry state never changes.
C10_StateFrozenAfterManagerError ==
    /\ []C10_Frozen
    /\ [][ErrorAnswers # {} =>
              /\ current_state' = current_state
              /\ Calls("update_state")' = Calls("update_state")]_vars

C10_Witness ==
    /\ ErrorAnswers # {}
    /\ Fetched = <<INIT, START>>
    /\ current_state = "RUNNING"
    /\ application_companion_out_queue = <<PID_AND_STEP, "ERROR">>

\* C11: the loop reaches Terminated(OK) only in the step in which the
\* handler of END gets a response other than ERROR from the Manager, and a
\* response other than ERROR to INIT or START puts the loop back to
\* awaiting the next command.
C11_OnlyEndEndsLoopNormally ==
    [][/\ (pc # "Terminated" /\ pc' = "Terminated" /\ run_result' = OK) =>
              /\ pc = "AwaitingManager"
              /\ current_steering_command = END
              /\ Head(application_manager_out_queue) # "ERROR"
       /\ (/\ pc = "AwaitingManager"
           /\ log' # log
           /\ current_steering_command \in {INIT, START}
           /\ Head(application_manager_out_queue) # "ERROR") =>
              /\ pc' = "AwaitingCommand"
              /\ run_result' = NONE
              /\ ~signal_raised']_vars

C11_Witness ==
    /\ pc = "AwaitingCommand"
    /\ Fetched = <<INIT, START>>
    /\ application_companion_out_queue = <<PID_AND_STEP, OK>>

\* a handler called by the loop has returned ERROR: the FATAL handler, or
\* a handler whose Manager answered ERROR
HandlerReportedError ==
    \/ Fetched # <<>> /\ Fetched[Len(Fetched)] = FATAL
    \/ ErrorAnswers # {}

\* C12: the termination signal has been raised exactly when a handler
\* called by the loop has returned ERROR, and then once and with the loop
\* in Terminated(ERROR); it is not raised after a failed registration,
\* while the loop goes on, or when the loop has returned OK.
C12_SignalIffHandlerError ==
    /\ signal_raised <=> HandlerReportedError
    /\ Cardinality(Calls("raise_signal")) = (IF signal_raised THEN 1 ELSE 0)
    /\ HandlerReportedError => (pc = "Terminated" /\ run_result = "ERROR")
    /\ pc \in {"start", "SetupFailed", "AwaitingCommand", "AwaitingManager"}
           => ~signal_raised
    /\ LoopReturnedOK => ~signal_raised

C12_Witness ==
    /\ signal_raised
    /\ Fetched = <<INIT, START, FATAL>>

\* C13: once the set-up has run, the registration call has been made
\* after the affinity call whatever the latter returned, and the set-up
\* has failed exactly when the registration call returned ERROR.
C13_AffinityFailureNotFatal ==
    pc # "start" =>
        /\ Calls("set_affinity") = {1}
        /\ Calls("register") = {2}
        /\ (pc = "SetupFailed") <=> RegistrationFailed
        /\ (pc # "SetupFailed") <=> RegistrationSucceeded
        /\ RegistrationSucceeded => is_registered

C13_Witness ==
    /\ log # <<>>
    /\ log[1] = Ev("set_affinity", NONE, "ERROR")
    /\ pc = "AwaitingManager"
    /\ current_state = "SYNCHRONIZING"

\* C14: every update-state call is made with the registry handle in
\* place, after a find-by-id call that followed a successful registration.
C14_NoUpdateBeforeHandle ==
    \A i \in Calls("update_state") :
        /\ ac_registered_component_service # NONE
        /\ \E j \in Calls("find_by_id") :
               /\ j < i
               /\ \E k \in Calls("register") : k < j /\ log[k].rc # "ERROR"

C14_Witness ==
    /\ Calls("update_state") # {}
    /\ ac_registered_component_service = "proxy"
    /\ Fetched = <<END>>

\* commands put on the Manager's in queue whose response the Companion
\* has not received yet
Unanswered ==
    Cardinality(Calls("send_manager")) - Cardinality(Calls("receive_manager"))

SeqPrefix(s, t) == Len(s) <= Len(t) /\ SubSeq(t, 1, Len(s)) = s

C15_OneInFlight ==
    /\ Unanswered \in {0, 1}
    /\ Len(application_manager_in_queue)
           + Len(application_manager_out_queue) <= Unanswered
    /\ (pc = "AwaitingManager") <=> (Unanswered = 1)

\* C15: at most one command forwarded to the Manager is unanswered at any
\* time, the Companion takes a value from the inbound queue only when none
\* is, and a step makes at most one registry update.
C15_ExactlyOneCommandInFlight ==
    /\ []C15_OneInFlight
    /\ [][/\ Len(Fetched') > Len(Fetched) => Unanswered = 0
          /\ Cardinality(Calls("update_state")')
                 <= Cardinality(Calls("update_state")) + 1]_vars

C15_Witness ==
    /\ pc = "AwaitingManager"
    /\ Unanswered = 1
    /\ Len(application_companion_in_queue) = 2

\* C16: while a command forwarded to the Manager is unanswered and the
\* Manager's out queue is empty, the Companion makes no call: it stays in
\* the receive, takes nothing from the inbound queue (values that arrive,
\* FATAL included, stay there) and reaches no terminal state.
C16_FatalNotObservedWhileWaiting ==
    [][(Unanswered > 0 /\ application_manager_out_queue = <<>>) =>
          /\ log' = log
          /\ pc = "AwaitingManager"
          /\ pc' = pc
          /\ run_result' = NONE
          /\ SeqPrefix(application_companion_in_queue,
                       application_companion_in_queue')]_vars

C16_Witness ==
    /\ pc = "AwaitingManager"
    /\ application_manager_out_queue = <<>>
    /\ application_manager = 1
    /\ application_companion_in_queue = <<FATAL>>

\* values the Orchestrator has put on the inbound queue, in order
Delivered == Fetched \o application_companion_in_queue

\* the Orchestrator has delivered INIT first and END or FATAL after it,
\* and only steering commands and FATAL
OrchestratorAsAssumed ==
    /\ Delivered # <<>>
    /\ Delivered[1] = INIT
    /\ \E i \in 1..Len(Delivered) : Delivered[i] \in {END, FATAL}
    /\ \A i \in 1..Len(Delivered) :
           Delivered[i] \in SteeringCommands \cup {FATAL}

\* C17 (as stated): after a successful bootstrap, with the Manager
\* answering every command and the Orchestrator delivering INIT first and
\* then END or FATAL, the loop eventually reaches Terminated(OK) or
\* Terminated(ERROR); once there it takes no further value from the inbound
\* queue and makes no further call.
C17_LoopEventuallyTerminates ==
    /\ (RegistrationSucceeded /\ OrchestratorAsAssumed)
           ~> (pc = "Terminated" /\ run_result \in {OK, ERROR})
    /\ [][pc = "Terminated" =>
              /\ pc' = "Terminated"
              /\ run_result' = run_result
              /\ log' = log
              /\ SeqPrefix(application_companion_in_queue,
                           application_companion_in_queue')]_vars

\* under the same assumptions the loop terminates unless a state update
\* fails
TerminatesUnlessUpdateFails ==
    (RegistrationSucceeded /\ OrchestratorAsAssumed)
        ~> \/ pc = "Terminated" /\ run_result \in {OK, ERROR}
           \/ FailedUpdates # {}

\* what C18 says of a START or END taken before any INIT was executed: the
\* state is updated, the command is on the in queue of a Manager that was
\* never started, and the Companion is in the receive for good, having
\* sent nothing to the Orchestrator
BlockedOnMissingManager ==
    /\ pc = "AwaitingManager"
    /\ Len(Fetched) = 1
    /\ current_state = ExpectedState(Fetched[1])
    /\ RecordedStates = <<"READY", ExpectedState(Fetched[1])>>
    /\ application_manager = 0
    /\ Calls("manager_start") = {}
    /\ application_manager_in_queue = <<Fetched[1]>>
    /\ application_manager_out_queue = <<>>
    /\ application_companion_out_queue = <<>>
    /\ Calls("send_orchestrator") = {}
    /\ run_result = NONE
    /\ exception = NONE
    /\ ~signal_raised

\* C18 (as stated): once START or END has been taken before any INIT was
\* executed, the Companion is blocked on the missing Manager, in every
\* later state.
C18_StartOrEndFirstBlocksForever ==
    (Fetched # <<>> /\ Fetched[1] \in {START, END}) =>
        BlockedOnMissingManager

\* C18 (amended): the same, when the state update of that command
\* succeeded.
C18_StartOrEndFirstBlocksIfUpdated ==
    (Fetched # <<>> /\ Fetched[1] \in {START, END} /\ FailedUpdates = {}) =>
        BlockedOnMissingManager

C18_Witness ==
    /\ Fetched = <<START>>
    /\ current_state = "RUNNING"
    /\ application_manager_in_queue = <<START>>
    /\ application_companion_in_queue = <<INIT, FATAL>>

\* C19 (as stated): at most one Manager process is ever started.
C19_AtMostOneManager == application_manager <= 1

\* the INIT commands taken whose state update succeeded
InitsExecuted ==
    {i \in Calls("receive_orchestrator") :
        log[i].arg = INIT /\ log[i + 1].rc # "ERROR"}

\* C19 (amended): one Manager process has been started for each INIT
\* executed whose state update succeeded, and by no other command; so at
\* most one has been started if at most one INIT was executed.
C19_OneManagerPerInit ==
    /\ application_manager = Cardinality(InitsExecuted)
    /\ Cardinality(Calls("manager_start")) = application_manager
    /\ \A i \in Calls("manager_start") :
           log[i - 1] = Ev("update_state", "SYNCHRONIZING", OK)
    /\ Cardinality({i \in 1..Len(Fetched) : Fetched[i] = INIT}) <= 1
           => application_manager <= 1

C19_Witness ==
    /\ application_manager = 2
    /\ Fetched = <<INIT, INIT>>

\* the loop takes a value that is not a key of the dispatch table
UnknownStep ==
    /\ pc = "AwaitingCommand"
    /\ application_companion_in_queue # <<>>
    /\ Head(application_companion_in_queue) \notin {INIT, START, END, FATAL}
    /\ log' # log

\* C20: the step in which the loop takes a value that is none of INIT,
\* START, END, FATAL ends the loop with KeyError: no state update, nothing
\* put on or taken from the Manager's queues, nothing sent to the
\* Orchestrator, no termination signal and no OK or ERROR returned.
C20_UnknownValueAbortsLoop ==
    [][UnknownStep =>
          /\ pc' = "Raised"
          /\ exception' = "KeyError"
          /\ run_result' = NONE
          /\ ~signal_raised'
          /\ current_state' = current_state
          /\ application_manager_in_queue' = application_manager_in_queue
          /\ application_manager_out_queue' = application_manager_out_queue
          /\ application_manager' = application_manager
          /\ application_companion_out_queue' =
                 application_companion_out_queue
          /\ \A i \in (Len(log) + 1)..Len(log') :
                 log'[i].op \in {"receive_orchestrator", "exception"}]_vars

C20_Witness ==
    /\ exception = "KeyError"
    /\ Fetched = <<INIT, UNKNOWN>>
    /\ current_state = "SYNCHRONIZING"

====
